---- MODULE Spec2Model ----
(***************************************************************************)
(* Deep equality of JavaScript values as computed by                       *)
(* src/src/core/deep-equal-core.ts (deepEqualCore and its three            *)
(* comparators) behind the entry point isDeepEqual.                        *)
(*                                                                         *)
(* A value is a primitive or a reference into a heap of objects.  The      *)
(* comparator is a recursive function of (a, b, options, seen, depth)      *)
(* that threads the WeakMap `seen` through its recursive calls; it is      *)
(* modelled by recursive operators returning the boolean, whether an       *)
(* exception escaped, the ledger as the call left it and the deepest       *)
(* depth any call was made at.  The operators take the heap the            *)
(* references point into as their first argument.                          *)
(***************************************************************************)
EXTENDS Integers, Sequences, FiniteSets, TLC

(***************************************************************************)
(* Bounds of the model.                                                    *)
(***************************************************************************)
\* explicit maxDepth options range over 0..MaxDepthOpt
MaxDepthOpt == 4
\* chains of nested single-key objects have 1..ChainMax levels
ChainMax == 3
\* reference cycles run through 1..RingMax objects
RingMax == 2

(***************************************************************************)
(* Program constants.                                                      *)
(***************************************************************************)
\* options.maxDepth ?? 1000
DefaultMaxDepth == 1000
\* if (setA.size <= 10)
SmallSetMax == 10

(***************************************************************************)
(* JavaScript values.  t is the typeof-like tag; n is the magnitude of a   *)
(* number, the code of a string or boolean, or the heap id of an object;   *)
(* neg is the sign bit of a number; nan marks the number NaN.              *)
(***************************************************************************)
Val(t, n, neg, nan) == [t |-> t, n |-> n, neg |-> neg, nan |-> nan]
Undefined == Val("undefined", 0, FALSE, FALSE)
Null      == Val("null", 0, FALSE, FALSE)
Num(n)    == Val("number", n, FALSE, FALSE)
NegZero   == Val("number", 0, TRUE, FALSE)
NaN       == Val("number", 0, FALSE, TRUE)
Str(n)    == Val("string", n, FALSE, FALSE)
Fn(n)     == Val("function", n, FALSE, FALSE)
Ref(id)   == Val("object", id, FALSE, FALSE)

IsNaN(v)  == v.t = "number" /\ v.nan
IsZero(v) == v.t = "number" /\ ~v.nan /\ v.n = 0
IsObj(v)  == v.t = "object"

\* a === b
StrictEq(a, b) ==
  /\ a.t = b.t
  /\ IF a.t = "number"
       THEN ~a.nan /\ ~b.nan /\ a.n = b.n /\ (a.n = 0 \/ a.neg = b.neg)
       ELSE a = b

\* a !== 0 || 1 / a === 1 / b, evaluated where a === b
ZeroSignsAgree(a, b) == ~IsZero(a) \/ a.neg = b.neg

(***************************************************************************)
(* Heap objects.  cls is the internal category the built-in tests see      *)
(* (Array.isArray, ArrayBuffer.isView, the prototype's valueOf); ctor is   *)
(* the value of .constructor ("undefined" for an object without a          *)
(* prototype); proto says whether Object.prototype is on the prototype     *)
(* chain; keys/props are the own enumerable string-keyed properties in     *)
(* Object.keys order; items are array elements, Set elements, Map keys,    *)
(* typed-array elements or buffer bytes; mvals are Map values; prim is a   *)
(* Date's time value or a wrapper's primitive.                             *)
(***************************************************************************)
Blank ==
  [cls |-> "Object", ctor |-> "Object", proto |-> TRUE,
   keys |-> <<>>, props |-> <<>>, items |-> <<>>, mvals |-> <<>>,
   prim |-> Undefined, source |-> Undefined, flags |-> Undefined,
   name |-> Undefined, message |-> Undefined]

MkObject(ctor, keys, props) ==
  [Blank EXCEPT !.ctor = ctor, !.keys = keys, !.props = props]
MkNullProto(keys, props) ==
  [Blank EXCEPT !.ctor = "undefined", !.proto = FALSE, !.keys = keys, !.props = props]
MkArray(items)  == [Blank EXCEPT !.cls = "Array", !.ctor = "Array", !.items = items]
MkSet(items)    == [Blank EXCEPT !.cls = "Set", !.ctor = "Set", !.items = items]
MkMap(ks, vs)   == [Blank EXCEPT !.cls = "Map", !.ctor = "Map", !.items = ks, !.mvals = vs]
MkDate(t)       == [Blank EXCEPT !.cls = "Date", !.ctor = "Date", !.prim = t]
MkRegExp(s, f)  == [Blank EXCEPT !.cls = "RegExp", !.ctor = "RegExp", !.source = s, !.flags = f]
MkBuffer(bytes) == [Blank EXCEPT !.cls = "ArrayBuffer", !.ctor = "ArrayBuffer", !.items = bytes]
MkTyped(ctor, elems) == [Blank EXCEPT !.cls = "TypedArray", !.ctor = ctor, !.items = elems]
MkBoxed(ctor, p) == [Blank EXCEPT !.cls = "Boxed", !.ctor = ctor, !.prim = p]
MkError(ctor, nm, msg) ==
  [Blank EXCEPT !.cls = "Error", !.ctor = ctor, !.name = nm, !.message = msg]

\* the numbers 1..n in ascending and in descending order
Asc(n)  == [i \in 1..n |-> Num(i)]
Desc(n) == [i \in 1..n |-> Num(n + 1 - i)]

(***************************************************************************)
(* The objects the comparisons are run on.  Objects with the same          *)
(* contents at different ids are distinct references.                      *)
(***************************************************************************)
FixedObjs == <<
  (*  1 *) MkObject("Object", <<>>, <<>>),
  (*  2 *) MkObject("Object", <<>>, <<>>),
  (*  3 *) MkObject("Object", <<"x">>, <<Num(1)>>),
  (*  4 *) MkObject("Object", <<"x">>, <<Num(1)>>),
  (*  5 *) MkObject("Object", <<"x">>, <<Num(1)>>),
  (*  6 *) MkObject("Object", <<"x">>, <<Num(2)>>),
  (*  7 *) MkObject("Object", <<"x">>, <<Num(2)>>),
  (*  8 *) MkObject("Object", <<"x", "y">>, <<Num(1), Ref(3)>>),
  (*  9 *) MkObject("Object", <<"y", "x">>, <<Ref(4), Num(1)>>),
  (* 10 *) MkObject("Object", <<"y">>, <<Num(1)>>),
  (* 11 *) MkObject("Foo", <<"x">>, <<Num(1)>>),
  (* 12 *) MkObject("Bar", <<"x">>, <<Num(1)>>),
  (* 13 *) MkNullProto(<<>>, <<>>),
  (* 14 *) MkNullProto(<<>>, <<>>),
  (* 15 *) MkArray(<<>>),
  (* 16 *) MkArray(<<Num(1), Num(2)>>),
  (* 17 *) MkArray(<<Num(2), Num(1)>>),
  (* 18 *) MkArray(<<Ref(3), Ref(3)>>),
  (* 19 *) MkArray(<<Ref(4), Ref(5)>>),
  (* 20 *) MkArray(<<Ref(21), Ref(21)>>),
  (* 21 *) MkObject("Object", <<"x">>, <<Num(1)>>),
  (* 22 *) MkArray(<<Ref(23), Ref(24)>>),
  (* 23 *) MkObject("Object", <<"x">>, <<Num(1)>>),
  (* 24 *) MkObject("Object", <<"x">>, <<Num(1)>>),
  (* 25 *) MkDate(Num(1)),
  (* 26 *) MkDate(Num(1)),
  (* 27 *) MkDate(Num(2)),
  (* 28 *) MkRegExp(Str(1), Str(2)),
  (* 29 *) MkRegExp(Str(1), Str(2)),
  (* 30 *) MkBuffer(<<>>),
  (* 31 *) MkBuffer(<<Num(1)>>),
  (* 32 *) MkBuffer(<<Num(1)>>),
  (* 33 *) MkTyped("Uint8Array", <<Num(1)>>),
  (* 34 *) MkTyped("Uint8Array", <<Num(1)>>),
  (* 35 *) MkTyped("Float64Array", <<Num(1)>>),
  (* 36 *) MkBoxed("Number", Num(1)),
  (* 37 *) MkBoxed("Number", Num(1)),
  (* 38 *) MkBoxed("Number", Num(2)),
  (* 39 *) MkError("Error", Str(3), Str(4)),
  (* 40 *) MkError("Error", Str(3), Str(4)),
  (* 41 *) MkError("TypeError", Str(5), Str(4)),
  (* 42 *) MkSet(<<>>),
  (* 43 *) MkSet(<<Num(1), Num(2)>>),
  (* 44 *) MkSet(<<Num(2), Num(1)>>),
  (* 45 *) MkSet(<<Num(1)>>),
  (* 46 *) MkSet(<<Ref(3), Ref(6)>>),
  (* 47 *) MkSet(<<Ref(7), Ref(4)>>),
  (* 48 *) MkSet(<<Ref(18), Ref(19)>>),
  (* 49 *) MkSet(<<Ref(19), Ref(18)>>),
  (* 50 *) MkSet(<<Ref(20), Ref(22)>>),
  (* 51 *) MkSet(Asc(SmallSetMax + 1)),
  (* 52 *) MkSet(Desc(SmallSetMax + 1)),
  (* 53 *) MkSet([Asc(SmallSetMax + 1) EXCEPT ![1] = Num(SmallSetMax + 2)]),
  (* 54 *) MkMap(<<>>, <<>>),
  (* 55 *) MkMap(<<Num(1), Num(2)>>, <<Ref(3), Ref(6)>>),
  (* 56 *) MkMap(<<Num(2), Num(1)>>, <<Ref(7), Ref(4)>>),
  (* 57 *) MkMap(<<Ref(3), Ref(6)>>, <<Num(1), Num(2)>>),
  (* 58 *) MkMap(<<Ref(4), Ref(7)>>, <<Num(1), Num(2)>>),
  (* 59 *) MkMap(<<Ref(7), Ref(4)>>, <<Num(2), Num(1)>>),
  (* 60 *) MkMap(<<Ref(1), Ref(2)>>, <<Ref(3), Ref(6)>>),
  (* 61 *) MkMap(<<Ref(2), Ref(1)>>, <<Ref(6), Ref(6)>>),
  (* 62 *) MkArray(<<NaN>>),
  (* 63 *) MkArray(<<NaN>>),
  (* 64 *) MkObject("Object", <<"x">>, <<NaN>>),
  (* 65 *) MkObject("Object", <<"x">>, <<NaN>>),
  (* 66 *) MkSet(<<NaN>>),
  (* 67 *) MkSet(<<NaN>>),
  (* 68 *) MkTyped("Float64Array", <<NaN>>),
  (* 69 *) MkTyped("Float64Array", <<NaN>>),
  (* 70 *) MkArray(<<Num(0)>>),
  (* 71 *) MkArray(<<NegZero>>),
  (* 72 *) MkObject("Object", <<"x">>, <<Num(0)>>),
  (* 73 *) MkObject("Object", <<"x">>, <<NegZero>>),
  (* 74 *) MkTyped("Float64Array", <<Num(0)>>),
  (* 75 *) MkTyped("Float64Array", <<NegZero>>),
  (* 76 *) MkBoxed("Number", Num(0)),
  (* 77 *) MkBoxed("Number", NegZero),
  (* 78 *) MkArray(<<Ref(3)>>),
  (* 79 *) MkArray(<<Ref(78), Ref(3)>>),
  (* 80 *) MkArray(<<Ref(4)>>),
  (* 81 *) MkArray(<<Ref(80), Ref(4)>>),
  (* 82 *) MkMap(<<Ref(3), Ref(4)>>, <<Num(1), Num(1)>>),
  (* 83 *) MkMap(<<Ref(5), Ref(6)>>, <<Num(1), Num(2)>>),
  (* 84 *) MkSet(<<Ref(19), Ref(18)>> \o Asc(SmallSetMax - 1)),
  (* 85 *) MkSet(<<Ref(18), Ref(19)>> \o Asc(SmallSetMax - 1))
>>

NFixed == Len(FixedObjs)
FixedIds == 1..NFixed

\* Chains of nested single-key objects: level k of side s holds level k-1
\* under its only key, level 1 holds the primitive leaf.
ChainId(side, k) == 100 + 20 * side + k
ChainSide(id)  == (id - 100) \div 20
ChainLevel(id) == (id - 100) % 20
ChainIds == {ChainId(s, k) : s \in 0..1, k \in 1..ChainMax}
ChainObj(id) ==
  LET k == ChainLevel(id)
      side == ChainSide(id)
  IN  MkObject("Object", <<"k">>,
               <<IF k = 1 THEN Num(1) ELSE Ref(ChainId(side, k - 1))>>)

\* Reference cycles through n objects.  Copies 0..2 are records
\* {foo, self}, copies 3..5 are arrays [foo, next]; copies 2 and 5 hold a
\* different primitive in the last object of the cycle.
RingId(copy, n, i) == 200 + 40 * copy + 5 * n + i
RingIds == UNION {{RingId(c, n, i) : i \in 0..(n - 1)} : c \in 0..5, n \in 1..RingMax}
RingCopy(id) == (id - 200) \div 40
RingSize(id) == ((id - 200) % 40) \div 5
RingPos(id)  == ((id - 200) % 40) % 5
RingFoo(c, n, i) == IF c \in {2, 5} /\ i = n - 1 THEN 2 ELSE 1
RingObj(id) ==
  LET c == RingCopy(id)
      n == RingSize(id)
      i == RingPos(id)
      foo == Num(RingFoo(c, n, i))
      nxt == Ref(RingId(c, n, (i + 1) % n))
  IN  IF c < 3 THEN MkObject("Object", <<"foo", "self">>, <<foo, nxt>>)
               ELSE MkArray(<<foo, nxt>>)

\* Reference cycles that pass through Set elements and Map keys or values.
CycObjs == <<
  (* 501 *) MkSet(<<Ref(501)>>),
  (* 502 *) MkSet(<<Ref(502)>>),
  (* 503 *) MkSet(<<Ref(503), Ref(504)>>),
  (* 504 *) MkSet(<<Ref(503)>>),
  (* 505 *) MkSet(<<Ref(505), Ref(506)>>),
  (* 506 *) MkSet(<<Ref(505)>>),
  (* 507 *) MkMap(<<Num(1)>>, <<Ref(507)>>),
  (* 508 *) MkMap(<<Num(1)>>, <<Ref(508)>>),
  (* 509 *) MkMap(<<Ref(509)>>, <<Num(1)>>),
  (* 510 *) MkMap(<<Ref(510)>>, <<Num(1)>>),
  (* 511 *) MkObject("Object", <<"s">>, <<Ref(512)>>),
  (* 512 *) MkSet(<<Ref(511)>>),
  (* 513 *) MkObject("Object", <<"s">>, <<Ref(514)>>),
  (* 514 *) MkSet(<<Ref(513)>>)
>>
CycIds == {500 + i : i \in 1..Len(CycObjs)}

\* Iterating a Map yields a new [key, value] array per entry.
EntryId(m, i) == 1000 + 20 * m + i
IsEntryId(id) == id >= 1000

RECURSIVE Obj(_)
Obj(id) ==
  IF id \in FixedIds THEN FixedObjs[id]
  ELSE IF id \in ChainIds THEN ChainObj(id)
  ELSE IF id \in RingIds THEN RingObj(id)
  ELSE IF id \in CycIds THEN CycObjs[id - 500]
  ELSE LET m == Obj((id - 1000) \div 20)
           i == (id - 1000) % 20
       IN  MkArray(<<m.items[i], m.mvals[i]>>)

Prims == {Undefined, Null, Num(0), NegZero, NaN, Num(1), Num(2), Str(1), Fn(1)}
BaseValues  == Prims \cup {Ref(i) : i \in FixedIds}
ChainValues == {Ref(i) : i \in ChainIds}
RingValues  == {Ref(i) : i \in RingIds}
CycValues   == {Ref(i) : i \in CycIds}

\* The heap a call runs on: every object above, and the [key, value] arrays
\* that iterating its Maps yields.
ObjIds == FixedIds \cup ChainIds \cup RingIds \cup CycIds
EntryIds ==
  UNION {{EntryId(m, i) : i \in DOMAIN Obj(m).items} :
           m \in {x \in ObjIds : Obj(x).cls = "Map"}}
Heap == [id \in ObjIds \cup EntryIds |-> Obj(id)]

(***************************************************************************)
(* Property access on an object reference.                                 *)
(***************************************************************************)
IndexKeys == <<"0", "1", "2", "3">>
Range(s) == {s[i] : i \in DOMAIN s}
IsIndexed(o) == o.cls \in {"Array", "TypedArray"}

\* Object.keys(o): integer indices in ascending order, then the other
\* own enumerable string keys in creation order
ObjectKeys(o) ==
  IF IsIndexed(o) THEN SubSeq(IndexKeys, 1, Len(o.items)) \o o.keys ELSE o.keys

\* Object.prototype.hasOwnProperty.call(o, key), for the enumerable keys
HasOwn(o, key) == key \in Range(ObjectKeys(o))

\* o[key]
GetProp(o, key) ==
  IF key \in Range(o.keys)
    THEN o.props[CHOOSE i \in DOMAIN o.keys : o.keys[i] = key]
  ELSE IF IsIndexed(o) /\ key \in Range(SubSeq(IndexKeys, 1, Len(o.items)))
    THEN o.items[CHOOSE i \in DOMAIN o.items : IndexKeys[i] = key]
  ELSE IF key = "length" /\ IsIndexed(o) THEN Num(Len(o.items))
  ELSE IF key = "size" /\ o.cls \in {"Set", "Map"} THEN Num(Len(o.items))
  ELSE IF key = "byteLength" /\ o.cls = "ArrayBuffer" THEN Num(Len(o.items))
  ELSE IF key = "byteLength" /\ o.cls = "TypedArray"
    THEN Num(Len(o.items) * (IF o.ctor = "Float64Array" THEN 8 ELSE 1))
  ELSE IF key = "source" /\ o.cls = "RegExp" THEN o.source
  ELSE IF key = "flags" /\ o.cls = "RegExp" THEN o.flags
  ELSE IF key = "name" /\ o.cls = "Error" THEN o.name
  ELSE IF key = "message" /\ o.cls = "Error" THEN o.message
  ELSE Undefined

\* o[i] for an array index i (0-based)
GetIndex(o, i) ==
  IF IsIndexed(o) THEN (IF i < Len(o.items) THEN o.items[i + 1] ELSE Undefined)
  ELSE IF i < Len(IndexKeys) THEN GetProp(o, IndexKeys[i + 1])
  ELSE Undefined

\* o.constructor
Constructor(o) == o.ctor

\* dateB.getTime(): a TypeError unless the receiver is a Date
GetTime(o) == [ok |-> o.cls = "Date", v |-> o.prim]

\* a.valueOf !== Object.prototype.valueOf: wrappers and Dates override
\* valueOf, an object without a prototype has none
OverridesValueOf(o) == o.cls \in {"Date", "Boxed"} \/ ~o.proto

\* x.valueOf() on the object referenced by x: a TypeError without a
\* prototype, the primitive of a wrapper or Date, else the object itself
ValueOf(heap, x) ==
  LET o == heap[x.n]
  IN  [ok |-> o.proto,
       v  |-> IF o.cls \in {"Date", "Boxed"} THEN o.prim ELSE x]

\* new Uint8Array(buf): the bytes of a buffer, a copy of a typed array's
\* elements converted to bytes, and no elements for an object that is
\* neither iterable nor array-like
ToUint8(v) == IF v.nan THEN Num(0) ELSE Num(v.n % 256)
Uint8View(o) ==
  IF o.cls = "ArrayBuffer" THEN o.items
  ELSE IF o.cls = "TypedArray" THEN [i \in DOMAIN o.items |-> ToUint8(o.items[i])]
  ELSE <<>>

\* The values a for..of over the object with id `id` yields, and whether
\* the object is iterable at all.
Iterate(heap, id) ==
  LET o == heap[id]
  IN  [ok |-> o.cls \in {"Array", "TypedArray", "Set", "Map"},
       vs |-> IF o.cls = "Map" THEN [i \in DOMAIN o.items |-> Ref(EntryId(id, i))]
              ELSE IF o.cls \in {"Array", "TypedArray", "Set"} THEN o.items
              ELSE <<>>]

\* const [k, v] = item: the first two values the item yields; a TypeError
\* for undefined, null, numbers, functions and non-iterable objects
At(s, i) == IF i <= Len(s) THEN s[i] ELSE Undefined
Destructure(heap, item) ==
  CASE item.t \in {"undefined", "null", "number", "function"} ->
         [ok |-> FALSE, k |-> Undefined, v |-> Undefined]
    [] item.t = "object" ->
         LET it == Iterate(heap, item.n)
         IN  [ok |-> it.ok, k |-> At(it.vs, 1), v |-> At(it.vs, 2)]

\* The [key, value] pairs a `for (const [k, v] of mapB)` visits: entry i is
\* read, and may throw, only when the loop reaches it.
MapEntry(heap, id, i) ==
  LET o == heap[id]
  IN  IF o.cls = "Map" THEN [ok |-> TRUE, k |-> o.items[i], v |-> o.mvals[i]]
      ELSE Destructure(heap, Iterate(heap, id).vs[i])

(***************************************************************************)
(* Options and the visitation ledger.                                      *)
(***************************************************************************)
\* mutant of seen.set: the entries recorded before are dropped
SeenSetForgets(seen, a, b) == [x \in {a.n} |-> b.n]

\* the WeakMap `seen` as a function from left-hand ids to right-hand ids
NewSeen == [x \in {} |-> 0]
SeenHas(seen, a) == a.n \in DOMAIN seen
SeenGet(seen, a) == Ref(seen[a.n])
SeenSet(seen, a, b) ==
  [x \in DOMAIN seen \cup {a.n} |-> IF x = a.n THEN b.n ELSE seen[x]]

Max(x, y) == IF x >= y THEN x ELSE y

\* What a call hands back: r the boolean, ex whether an exception escaped
\* instead, seen the ledger as the call left it, maxd the greatest depth
\* any call of the tree was entered at.
Return(r, seen, maxd) == [r |-> r, ex |-> FALSE, seen |-> seen, maxd |-> maxd]
Throw(seen, maxd)     == [r |-> FALSE, ex |-> TRUE, seen |-> seen, maxd |-> maxd]

\* mutants of the depth guard: one level early, one level late
DepthGuardEarly(depth, options) == depth >= options.maxDepth
DepthGuardLate(depth, options) == depth > options.maxDepth + 1

\* if (depth > options.maxDepth) return false;
DepthGuard(depth, options) == depth > options.maxDepth

\* mutant of the NaN rule: NaN always equals NaN
NaNAnswerTrue(options) == TRUE

\* if (a !== a && b !== b) return options.nanEqual;
NaNAnswer(options) == options.nanEqual

\* mutant of the constructor check: the option ignored
ConstructorCheckAlways(A, B, options) == Constructor(A) # Constructor(B)

\* if (a.constructor !== b.constructor && options.checkPrototypes) return false;
ConstructorCheck(A, B, options) ==
  Constructor(A) # Constructor(B) /\ options.checkPrototypes

\* mutant of the ledger's answer: the comparison negated
SeenAnswerNegated(seen, a, b) == ~StrictEq(SeenGet(seen, a), b)

\* return seen.get(a) === b;
SeenAnswer(seen, a, b) == StrictEq(SeenGet(seen, a), b)

(***************************************************************************)
(* deepEqualCore and its comparators (src/src/core/deep-equal-core.ts).    *)
(***************************************************************************)
RECURSIVE deepEqualCore(_, _, _, _, _, _)
RECURSIVE arrayLoop(_, _, _, _, _, _, _, _)
RECURSIVE smallSetInner(_, _, _, _, _, _, _, _)
RECURSIVE smallSetOuter(_, _, _, _, _, _, _, _, _)
RECURSIVE largeSetInner(_, _, _, _, _, _, _, _)
RECURSIVE largeSetOuter(_, _, _, _, _, _, _, _, _)
RECURSIVE mapInner(_, _, _, _, _, _, _, _, _)
RECURSIVE mapOuter(_, _, _, _, _, _, _, _)
RECURSIVE objectLoop(_, _, _, _, _, _, _, _, _)

\* for (let i = length; i-- !== 0;)
\*   if (!deepEqualCore(arrA[i], arrB[i], options, seen, depth + 1)) return false;
arrayLoop(heap, A, B, options, seen, depth, i, maxd) ==
  IF i = 0 THEN Return(TRUE, seen, maxd)
  ELSE LET c == deepEqualCore(heap, GetIndex(A, i - 1), GetIndex(B, i - 1),
                              options, seen, depth + 1)
           m == Max(maxd, c.maxd)
       IN  IF c.ex THEN Throw(c.seen, m)
           ELSE IF ~c.r THEN Return(FALSE, c.seen, m)
           ELSE arrayLoop(heap, A, B, options, c.seen, depth, i - 1, m)

\* mutant of the small-set inner loop: positions already claimed are offered
\* again
RECURSIVE smallSetInnerReclaims(_, _, _, _, _, _, _, _)
smallSetInnerReclaims(heap, itemA, vsB, options, depth, j, processedB, maxd) ==
  IF j > Len(vsB) THEN [found |-> 0, ex |-> FALSE, maxd |-> maxd]
  ELSE LET c == deepEqualCore(heap, itemA, vsB[j], options, NewSeen, depth + 1)
           m == Max(maxd, c.maxd)
       IN  IF c.ex THEN [found |-> 0, ex |-> TRUE, maxd |-> m]
           ELSE IF c.r THEN [found |-> j, ex |-> FALSE, maxd |-> m]
           ELSE smallSetInnerReclaims(heap, itemA, vsB, options, depth, j + 1, processedB, m)

\* The inner loop of the small-set branch: the first unclaimed position of
\* setB, in iteration order from j on, whose element equals itemA under a
\* new ledger; 0 when there is none.
smallSetInner(heap, itemA, vsB, options, depth, j, processedB, maxd) ==
  IF j > Len(vsB) THEN [found |-> 0, ex |-> FALSE, maxd |-> maxd]
  ELSE IF j \in processedB
    THEN smallSetInner(heap, itemA, vsB, options, depth, j + 1, processedB, maxd)
  ELSE LET c == deepEqualCore(heap, itemA, vsB[j], options, NewSeen, depth + 1)
           m == Max(maxd, c.maxd)
       IN  IF c.ex THEN [found |-> 0, ex |-> TRUE, maxd |-> m]
           ELSE IF c.r THEN [found |-> j, ex |-> FALSE, maxd |-> m]
           ELSE smallSetInner(heap, itemA, vsB, options, depth, j + 1, processedB, m)

\* for (const itemA of setA) { ...; if (!found) return false; } return true;
smallSetOuter(heap, vsA, idB, options, seen, depth, i, processedB, maxd) ==
  IF i > Len(vsA) THEN Return(TRUE, seen, maxd)
  ELSE IF ~Iterate(heap, idB).ok THEN Throw(seen, maxd)
  ELSE LET f == smallSetInner(heap, vsA[i], Iterate(heap, idB).vs, options, depth, 1,
                              processedB, maxd)
       IN  IF f.ex THEN Throw(seen, f.maxd)
           ELSE IF f.found = 0 THEN Return(FALSE, seen, f.maxd)
           ELSE smallSetOuter(heap, vsA, idB, options, seen, depth, i + 1,
                              processedB \cup {f.found}, f.maxd)

\* for (let j = arrB.length; j-- !== 0;) of the large-set branch
largeSetInner(heap, itemA, arrB, options, depth, j, processedB, maxd) ==
  IF j = 0 THEN [found |-> 0, ex |-> FALSE, maxd |-> maxd]
  ELSE IF j \in processedB
    THEN largeSetInner(heap, itemA, arrB, options, depth, j - 1, processedB, maxd)
  ELSE LET c == deepEqualCore(heap, itemA, arrB[j], options, NewSeen, depth + 1)
           m == Max(maxd, c.maxd)
       IN  IF c.ex THEN [found |-> 0, ex |-> TRUE, maxd |-> m]
           ELSE IF c.r THEN [found |-> j, ex |-> FALSE, maxd |-> m]
           ELSE largeSetInner(heap, itemA, arrB, options, depth, j - 1, processedB, m)

\* for (let i = arrA.length; i-- !== 0;) of the large-set branch
largeSetOuter(heap, arrA, arrB, options, seen, depth, i, processedB, maxd) ==
  IF i = 0 THEN Return(TRUE, seen, maxd)
  ELSE LET f == largeSetInner(heap, arrA[i], arrB, options, depth, Len(arrB),
                              processedB, maxd)
       IN  IF f.ex THEN Throw(seen, f.maxd)
           ELSE IF f.found = 0 THEN Return(FALSE, seen, f.maxd)
           ELSE largeSetOuter(heap, arrA, arrB, options, seen, depth, i - 1,
                              processedB \cup {f.found}, f.maxd)

\* Array.from(x): the values x yields, none for a non-iterable object
\* without a length
ArrayFrom(heap, id) == Iterate(heap, id).vs

compareSetOptimized(heap, setA, setB, options, seen, depth) ==
  IF Len(heap[setA.n].items) <= SmallSetMax
    THEN smallSetOuter(heap, heap[setA.n].items, setB.n, options, seen, depth, 1, {}, depth)
    ELSE LET arrA == ArrayFrom(heap, setA.n)
             arrB == ArrayFrom(heap, setB.n)
         IN  IF Len(arrA) # Len(arrB) THEN Return(FALSE, seen, depth)
             ELSE largeSetOuter(heap, arrA, arrB, options, seen, depth, Len(arrA), {}, depth)

\* The inner loop of compareMapOptimized from entry j of mapB on: key and
\* value are compared with the caller's ledger, which keeps what failed
\* candidates wrote; at is the position of the entry found.
mapInner(heap, keyA, valueA, idB, options, seen, depth, j, maxd) ==
  IF j > Len(Iterate(heap, idB).vs)
    THEN [found |-> FALSE, at |-> 0, ex |-> FALSE, seen |-> seen, maxd |-> maxd]
  ELSE LET e == MapEntry(heap, idB, j)
       IN  IF ~e.ok THEN [found |-> FALSE, at |-> 0, ex |-> TRUE, seen |-> seen, maxd |-> maxd]
           ELSE LET ck == deepEqualCore(heap, keyA, e.k, options, seen, depth + 1)
                    mk == Max(maxd, ck.maxd)
                IN  IF ck.ex
                      THEN [found |-> FALSE, at |-> 0, ex |-> TRUE, seen |-> ck.seen, maxd |-> mk]
                    ELSE IF ~ck.r
                      THEN mapInner(heap, keyA, valueA, idB, options, ck.seen, depth, j + 1, mk)
                    ELSE LET cv == deepEqualCore(heap, valueA, e.v, options, ck.seen, depth + 1)
                             mv == Max(mk, cv.maxd)
                         IN  IF cv.ex
                               THEN [found |-> FALSE, at |-> 0, ex |-> TRUE, seen |-> cv.seen, maxd |-> mv]
                             ELSE IF cv.r
                               THEN [found |-> TRUE, at |-> j, ex |-> FALSE, seen |-> cv.seen, maxd |-> mv]
                             ELSE mapInner(heap, keyA, valueA, idB, options, cv.seen, depth, j + 1, mv)

\* for (const [keyA, valueA] of mapA) { ...; if (!found) return false; } return true;
mapOuter(heap, idA, idB, options, seen, depth, i, maxd) ==
  IF i > Len(heap[idA].items) THEN Return(TRUE, seen, maxd)
  ELSE IF ~Iterate(heap, idB).ok THEN Throw(seen, maxd)
  ELSE LET f == mapInner(heap, heap[idA].items[i], heap[idA].mvals[i], idB, options,
                         seen, depth, 1, maxd)
       IN  IF f.ex THEN Throw(f.seen, f.maxd)
           ELSE IF ~f.found THEN Return(FALSE, f.seen, f.maxd)
           ELSE mapOuter(heap, idA, idB, options, f.seen, depth, i + 1, f.maxd)

compareMapOptimized(heap, mapA, mapB, options, seen, depth) ==
  mapOuter(heap, mapA.n, mapB.n, options, seen, depth, 1, depth)

\* for (let i = length; i-- !== 0;)
\*   if (!deepEqualCore(objA[key], objB[key], options, seen, depth + 1)) return false;
objectLoop(heap, A, B, keysA, options, seen, depth, i, maxd) ==
  IF i = 0 THEN Return(TRUE, seen, maxd)
  ELSE LET c == deepEqualCore(heap, GetProp(A, keysA[i]), GetProp(B, keysA[i]),
                              options, seen, depth + 1)
           m == Max(maxd, c.maxd)
       IN  IF c.ex THEN Throw(c.seen, m)
           ELSE IF ~c.r THEN Return(FALSE, c.seen, m)
           ELSE objectLoop(heap, A, B, keysA, options, c.seen, depth, i - 1, m)

compareObjectOptimized(heap, objA, objB, options, seen, depth) ==
  LET A == heap[objA.n]
      B == heap[objB.n]
      keysA == ObjectKeys(A)
  IN  IF Len(keysA) # Len(ObjectKeys(B)) THEN Return(FALSE, seen, depth)
      ELSE IF \E i \in DOMAIN keysA : ~HasOwn(B, keysA[i]) THEN Return(FALSE, seen, depth)
      ELSE objectLoop(heap, A, B, keysA, options, seen, depth, Len(keysA), depth)

\* The category dispatch of deepEqualCore, entered with a and b both
\* objects and a -> b just recorded in seen.
Dispatch(heap, a, b, options, seen, depth) ==
  LET A == heap[a.n]
      B == heap[b.n]
  IN  IF A.cls = "Array" THEN
        IF ~StrictEq(Num(Len(A.items)), GetProp(B, "length"))
          THEN Return(FALSE, seen, depth)
          ELSE arrayLoop(heap, A, B, options, seen, depth, Len(A.items), depth)
      ELSE IF Constructor(A) = "RegExp" THEN
        Return(StrictEq(GetProp(A, "source"), GetProp(B, "source"))
                 /\ StrictEq(GetProp(A, "flags"), GetProp(B, "flags")), seen, depth)
      ELSE IF Constructor(A) = "Date" THEN
        IF ~GetTime(A).ok \/ ~GetTime(B).ok THEN Throw(seen, depth)
        ELSE Return(StrictEq(GetTime(A).v, GetTime(B).v), seen, depth)
      ELSE IF Constructor(A) = "ArrayBuffer" THEN
        IF ~StrictEq(GetProp(A, "byteLength"), GetProp(B, "byteLength"))
          THEN Return(FALSE, seen, depth)
          ELSE Return(\A i \in DOMAIN Uint8View(A) :
                        StrictEq(Uint8View(A)[i], At(Uint8View(B), i)), seen, depth)
      ELSE IF A.cls = "TypedArray" THEN
        IF Constructor(A) # Constructor(B)
             \/ ~StrictEq(GetProp(A, "length"), GetProp(B, "length"))
          THEN Return(FALSE, seen, depth)
          ELSE Return(\A i \in DOMAIN A.items :
                        \/ StrictEq(A.items[i], GetIndex(B, i - 1))
                        \/ /\ options.nanEqual
                           /\ IsNaN(A.items[i])
                           /\ IsNaN(GetIndex(B, i - 1)), seen, depth)
      ELSE IF OverridesValueOf(A) THEN
        IF ~ValueOf(heap, a).ok \/ ~ValueOf(heap, b).ok THEN Throw(seen, depth)
        ELSE Return(StrictEq(ValueOf(heap, a).v, ValueOf(heap, b).v), seen, depth)
      ELSE IF Constructor(A) = "Error" THEN
        Return(StrictEq(GetProp(A, "name"), GetProp(B, "name"))
                 /\ StrictEq(GetProp(A, "message"), GetProp(B, "message")), seen, depth)
      ELSE IF Constructor(A) = "Set" THEN
        IF ~StrictEq(GetProp(A, "size"), GetProp(B, "size"))
          THEN Return(FALSE, seen, depth)
          ELSE compareSetOptimized(heap, a, b, options, seen, depth)
      ELSE IF Constructor(A) = "Map" THEN
        IF ~StrictEq(GetProp(A, "size"), GetProp(B, "size"))
          THEN Return(FALSE, seen, depth)
          ELSE compareMapOptimized(heap, a, b, options, seen, depth)
      ELSE compareObjectOptimized(heap, a, b, options, seen, depth)

\* mutant of the rule order: identity and NaN tested before the depth guard
deepEqualCoreIdentityFirst(heap, a, b, options, seen, depth) ==
  IF StrictEq(a, b)
    THEN Return(~options.strictZero \/ ZeroSignsAgree(a, b), seen, depth)
  ELSE IF IsNaN(a) /\ IsNaN(b) THEN Return(NaNAnswer(options), seen, depth)
  ELSE IF DepthGuard(depth, options) THEN Return(FALSE, seen, depth)
  ELSE IF ~IsObj(a) \/ ~IsObj(b) THEN Return(FALSE, seen, depth)
  ELSE IF ConstructorCheck(heap[a.n], heap[b.n], options)
    THEN Return(FALSE, seen, depth)
  ELSE IF SeenHas(seen, a) THEN Return(SeenAnswer(seen, a, b), seen, depth)
  ELSE Dispatch(heap, a, b, options, SeenSet(seen, a, b), depth)

deepEqualCore(heap, a, b, options, seen, depth) ==
  IF DepthGuard(depth, options) THEN Return(FALSE, seen, depth)
  ELSE IF StrictEq(a, b)
    THEN Return(~options.strictZero \/ ZeroSignsAgree(a, b), seen, depth)
  ELSE IF IsNaN(a) /\ IsNaN(b) THEN Return(NaNAnswer(options), seen, depth)
  ELSE IF ~IsObj(a) \/ ~IsObj(b) THEN Return(FALSE, seen, depth)
  ELSE IF ConstructorCheck(heap[a.n], heap[b.n], options)
    THEN Return(FALSE, seen, depth)
  ELSE IF SeenHas(seen, a) THEN Return(SeenAnswer(seen, a, b), seen, depth)
  ELSE Dispatch(heap, a, b, options, SeenSet(seen, a, b), depth)

(***************************************************************************)
(* The comparator inlined in the module of deepEqualCheck                  *)
(* (src/unnamed/part_000): the same comparators, calling its own           *)
(* deepEqualCore.                                                          *)
(***************************************************************************)
\* a === null || typeof a !== 'object' && typeof a !== 'function'
IsPrimitive(v) == v = Null \/ (v.t # "object" /\ v.t # "function")

RECURSIVE deepEqualCoreInlined(_, _, _, _, _, _)
RECURSIVE arrayLoopInlined(_, _, _, _, _, _, _, _)
RECURSIVE smallSetInnerInlined(_, _, _, _, _, _, _, _)
RECURSIVE smallSetOuterInlined(_, _, _, _, _, _, _, _, _)
RECURSIVE largeSetInnerInlined(_, _, _, _, _, _, _, _)
RECURSIVE largeSetOuterInlined(_, _, _, _, _, _, _, _, _)
RECURSIVE mapInnerInlined(_, _, _, _, _, _, _, _, _)
RECURSIVE mapOuterInlined(_, _, _, _, _, _, _, _)
RECURSIVE objectLoopInlined(_, _, _, _, _, _, _, _, _)

\* for (let i = length; i-- !== 0;)
\*   if (!deepEqualCore(arrA[i], arrB[i], options, seen, depth + 1)) return false;
arrayLoopInlined(heap, A, B, options, seen, depth, i, maxd) ==
  IF i = 0 THEN Return(TRUE, seen, maxd)
  ELSE LET c == deepEqualCoreInlined(heap, GetIndex(A, i - 1), GetIndex(B, i - 1),
                              options, seen, depth + 1)
           m == Max(maxd, c.maxd)
       IN  IF c.ex THEN Throw(c.seen, m)
           ELSE IF ~c.r THEN Return(FALSE, c.seen, m)
           ELSE arrayLoopInlined(heap, A, B, options, c.seen, depth, i - 1, m)

\* The inner loop of the small-set branch: the first unclaimed position of
\* setB, in iteration order from j on, whose element equals itemA under a
\* new ledger; 0 when there is none.
smallSetInnerInlined(heap, itemA, vsB, options, depth, j, processedB, maxd) ==
  IF j > Len(vsB) THEN [found |-> 0, ex |-> FALSE, maxd |-> maxd]
  ELSE IF j \in processedB
    THEN smallSetInnerInlined(heap, itemA, vsB, options, depth, j + 1, processedB, maxd)
  ELSE LET c == deepEqualCoreInlined(heap, itemA, vsB[j], options, NewSeen, depth + 1)
           m == Max(maxd, c.maxd)
       IN  IF c.ex THEN [found |-> 0, ex |-> TRUE, maxd |-> m]
           ELSE IF c.r THEN [found |-> j, ex |-> FALSE, maxd |-> m]
           ELSE smallSetInnerInlined(heap, itemA, vsB, options, depth, j + 1, processedB, m)

\* for (const itemA of setA) { ...; if (!found) return false; } return true;
smallSetOuterInlined(heap, vsA, idB, options, seen, depth, i, processedB, maxd) ==
  IF i > Len(vsA) THEN Return(TRUE, seen, maxd)
  ELSE IF ~Iterate(heap, idB).ok THEN Throw(seen, maxd)
  ELSE LET f == smallSetInnerInlined(heap, vsA[i], Iterate(heap, idB).vs, options, depth, 1,
                              processedB, maxd)
       IN  IF f.ex THEN Throw(seen, f.maxd)
           ELSE IF f.found = 0 THEN Return(FALSE, seen, f.maxd)
           ELSE smallSetOuterInlined(heap, vsA, idB, options, seen, depth, i + 1,
                              processedB \cup {f.found}, f.maxd)

\* for (let j = arrB.length; j-- !== 0;) of the large-set branch
largeSetInnerInlined(heap, itemA, arrB, options, depth, j, processedB, maxd) ==
  IF j = 0 THEN [found |-> 0, ex |-> FALSE, maxd |-> maxd]
  ELSE IF j \in processedB
    THEN largeSetInnerInlined(heap, itemA, arrB, options, depth, j - 1, processedB, maxd)
  ELSE LET c == deepEqualCoreInlined(heap, itemA, arrB[j], options, NewSeen, depth + 1)
           m == Max(maxd, c.maxd)
       IN  IF c.ex THEN [found |-> 0, ex |-> TRUE, maxd |-> m]
           ELSE IF c.r THEN [found |-> j, ex |-> FALSE, maxd |-> m]
           ELSE largeSetInnerInlined(heap, itemA, arrB, options, depth, j - 1, processedB, m)

\* for (let i = arrA.length; i-- !== 0;) of the large-set branch
largeSetOuterInlined(heap, arrA, arrB, options, seen, depth, i, processedB, maxd) ==
  IF i = 0 THEN Return(TRUE, seen, maxd)
  ELSE LET f == largeSetInnerInlined(heap, arrA[i], arrB, options, depth, Len(arrB),
                              processedB, maxd)
       IN  IF f.ex THEN Throw(seen, f.maxd)
           ELSE IF f.found = 0 THEN Return(FALSE, seen, f.maxd)
           ELSE largeSetOuterInlined(heap, arrA, arrB, options, seen, depth, i - 1,
                              processedB \cup {f.found}, f.maxd)

compareSetOptimizedInlined(heap, setA, setB, options, seen, depth) ==
  IF Len(heap[setA.n].items) <= SmallSetMax
    THEN smallSetOuterInlined(heap, heap[setA.n].items, setB.n, options, seen, depth, 1, {}, depth)
    ELSE LET arrA == ArrayFrom(heap, setA.n)
             arrB == ArrayFrom(heap, setB.n)
         IN  IF Len(arrA) # Len(arrB) THEN Return(FALSE, seen, depth)
             ELSE largeSetOuterInlined(heap, arrA, arrB, options, seen, depth, Len(arrA), {}, depth)

\* The inner loop of compareMapOptimized from entry j of mapB on: key and
\* value are compared with the caller's ledger, which keeps what failed
\* candidates wrote; at is the position of the entry found.
mapInnerInlined(heap, keyA, valueA, idB, options, seen, depth, j, maxd) ==
  IF j > Len(Iterate(heap, idB).vs)
    THEN [found |-> FALSE, at |-> 0, ex |-> FALSE, seen |-> seen, maxd |-> maxd]
  ELSE LET e == MapEntry(heap, idB, j)
       IN  IF ~e.ok THEN [found |-> FALSE, at |-> 0, ex |-> TRUE, seen |-> seen, maxd |-> maxd]
           ELSE LET ck == deepEqualCoreInlined(heap, keyA, e.k, options, seen, depth + 1)
                    mk == Max(maxd, ck.maxd)
                IN  IF ck.ex
                      THEN [found |-> FALSE, at |-> 0, ex |-> TRUE, seen |-> ck.seen, maxd |-> mk]
                    ELSE IF ~ck.r
                      THEN mapInnerInlined(heap, keyA, valueA, idB, options, ck.seen, depth, j + 1, mk)
                    ELSE LET cv == deepEqualCoreInlined(heap, valueA, e.v, options, ck.seen, depth + 1)
                             mv == Max(mk, cv.maxd)
                         IN  IF cv.ex
                               THEN [found |-> FALSE, at |-> 0, ex |-> TRUE, seen |-> cv.seen, maxd |-> mv]
                             ELSE IF cv.r
                               THEN [found |-> TRUE, at |-> j, ex |-> FALSE, seen |-> cv.seen, maxd |-> mv]
                             ELSE mapInnerInlined(heap, keyA, valueA, idB, options, cv.seen, depth, j + 1, mv)

\* for (const [keyA, valueA] of mapA) { ...; if (!found) return false; } return true;
mapOuterInlined(heap, idA, idB, options, seen, depth, i, maxd) ==
  IF i > Len(heap[idA].items) THEN Return(TRUE, seen, maxd)
  ELSE IF ~Iterate(heap, idB).ok THEN Throw(seen, maxd)
  ELSE LET f == mapInnerInlined(heap, heap[idA].items[i], heap[idA].mvals[i], idB, options,
                         seen, depth, 1, maxd)
       IN  IF f.ex THEN Throw(f.seen, f.maxd)
           ELSE IF ~f.found THEN Return(FALSE, f.seen, f.maxd)
           ELSE mapOuterInlined(heap, idA, idB, options, f.seen, depth, i + 1, f.maxd)

compareMapOptimizedInlined(heap, mapA, mapB, options, seen, depth) ==
  mapOuterInlined(heap, mapA.n, mapB.n, options, seen, depth, 1, depth)

\* for (let i = length; i-- !== 0;)
\*   if (!deepEqualCore(objA[key], objB[key], options, seen, depth + 1)) return false;
objectLoopInlined(heap, A, B, keysA, options, seen, depth, i, maxd) ==
  IF i = 0 THEN Return(TRUE, seen, maxd)
  ELSE LET c == deepEqualCoreInlined(heap, GetProp(A, keysA[i]), GetProp(B, keysA[i]),
                              options, seen, depth + 1)
           m == Max(maxd, c.maxd)
       IN  IF c.ex THEN Throw(c.seen, m)
           ELSE IF ~c.r THEN Return(FALSE, c.seen, m)
           ELSE objectLoopInlined(heap, A, B, keysA, options, c.seen, depth, i - 1, m)

compareObjectOptimizedInlined(heap, objA, objB, options, seen, depth) ==
  LET A == heap[objA.n]
      B == heap[objB.n]
      keysA == ObjectKeys(A)
  IN  IF Len(keysA) # Len(ObjectKeys(B)) THEN Return(FALSE, seen, depth)
      ELSE IF \E i \in DOMAIN keysA : ~HasOwn(B, keysA[i]) THEN Return(FALSE, seen, depth)
      ELSE objectLoopInlined(heap, A, B, keysA, options, seen, depth, Len(keysA), depth)

\* The category dispatch of deepEqualCore, entered with a and b both
\* objects and a -> b just recorded in seen.
DispatchInlined(heap, a, b, options, seen, depth) ==
  LET A == heap[a.n]
      B == heap[b.n]
  IN  IF A.cls = "Array" THEN
        IF ~StrictEq(Num(Len(A.items)), GetProp(B, "length"))
          THEN Return(FALSE, seen, depth)
          ELSE arrayLoopInlined(heap, A, B, options, seen, depth, Len(A.items), depth)
      ELSE IF Constructor(A) = "RegExp" THEN
        Return(StrictEq(GetProp(A, "source"), GetProp(B, "source"))
                 /\ StrictEq(GetProp(A, "flags"), GetProp(B, "flags")), seen, depth)
      ELSE IF Constructor(A) = "Date" THEN
        IF ~GetTime(A).ok \/ ~GetTime(B).ok THEN Throw(seen, depth)
        ELSE Return(StrictEq(GetTime(A).v, GetTime(B).v), seen, depth)
      ELSE IF Constructor(A) = "ArrayBuffer" THEN
        IF ~StrictEq(GetProp(A, "byteLength"), GetProp(B, "byteLength"))
          THEN Return(FALSE, seen, depth)
          ELSE Return(\A i \in DOMAIN Uint8View(A) :
                        StrictEq(Uint8View(A)[i], At(Uint8View(B), i)), seen, depth)
      ELSE IF A.cls = "TypedArray" THEN
        IF Constructor(A) # Constructor(B)
             \/ ~StrictEq(GetProp(A, "length"), GetProp(B, "length"))
          THEN Return(FALSE, seen, depth)
          ELSE Return(\A i \in DOMAIN A.items :
                        \/ StrictEq(A.items[i], GetIndex(B, i - 1))
                        \/ /\ options.nanEqual
                           /\ IsNaN(A.items[i])
                           /\ IsNaN(GetIndex(B, i - 1)), seen, depth)
      ELSE IF OverridesValueOf(A) THEN
        IF ~ValueOf(heap, a).ok \/ ~ValueOf(heap, b).ok THEN Throw(seen, depth)
        ELSE Return(StrictEq(ValueOf(heap, a).v, ValueOf(heap, b).v), seen, depth)
      ELSE IF Constructor(A) = "Error" THEN
        Return(StrictEq(GetProp(A, "name"), GetProp(B, "name"))
                 /\ StrictEq(GetProp(A, "message"), GetProp(B, "message")), seen, depth)
      ELSE IF Constructor(A) = "Set" THEN
        IF ~StrictEq(GetProp(A, "size"), GetProp(B, "size"))
          THEN Return(FALSE, seen, depth)
          ELSE compareSetOptimizedInlined(heap, a, b, options, seen, depth)
      ELSE IF Constructor(A) = "Map" THEN
        IF ~StrictEq(GetProp(A, "size"), GetProp(B, "size"))
          THEN Return(FALSE, seen, depth)
          ELSE compareMapOptimizedInlined(heap, a, b, options, seen, depth)
      ELSE compareObjectOptimizedInlined(heap, a, b, options, seen, depth)

\* The comparator of deepEqualCheck: identity, NaN and the both-primitive
\* test come before the depth guard.
\*   if (a === b) return !options.strictZero || ...;
\*   if (typeof a === 'number' && typeof b === 'number' && isNaN(a) && isNaN(b))
\*     return options.nanEqual;
\*   if ((a === null || typeof a !== 'object' && typeof a !== 'function') && (b ...))
\*     return false;
\*   if (depth > options.maxDepth) return false;
\*   if (!a || !b || typeof a !== 'object' || typeof b !== 'object') return false;
deepEqualCoreInlined(heap, a, b, options, seen, depth) ==
  IF StrictEq(a, b)
    THEN Return(~options.strictZero \/ ZeroSignsAgree(a, b), seen, depth)
  ELSE IF IsNaN(a) /\ IsNaN(b) THEN Return(options.nanEqual, seen, depth)
  ELSE IF IsPrimitive(a) /\ IsPrimitive(b) THEN Return(FALSE, seen, depth)
  ELSE IF depth > options.maxDepth THEN Return(FALSE, seen, depth)
  ELSE IF ~IsObj(a) \/ ~IsObj(b) THEN Return(FALSE, seen, depth)
  ELSE IF Constructor(heap[a.n]) # Constructor(heap[b.n]) /\ options.checkPrototypes
    THEN Return(FALSE, seen, depth)
  ELSE IF SeenHas(seen, a) THEN Return(StrictEq(SeenGet(seen, a), b), seen, depth)
  ELSE DispatchInlined(heap, a, b, options, SeenSet(seen, a, b), depth)


(***************************************************************************)
(* The entry point isDeepEqual (src/unnamed/part_001).                     *)
(***************************************************************************)
\* An optional field of DeepEqualOptions: absent, or present with a value.
Absent(v)  == [has |-> FALSE, v |-> v]
Given(v)   == [has |-> TRUE, v |-> v]
\* A boolean option is absent, and so defaulted, or given the value that is
\* not its default; maxDepth is absent or given a depth of the model's range.
OptBool(dflt) == {Absent(FALSE), Given(~dflt)}
OptDepth   == {Absent(0)} \cup {Given(d) : d \in 0..MaxDepthOpt}
DeepEqualOptions ==
  [nanEqual : OptBool(TRUE), checkPrototypes : OptBool(FALSE),
   strictZero : OptBool(FALSE), maxDepth : OptDepth]

\* x ?? dflt
Nullish(x, dflt) == IF x.has THEN x.v ELSE dflt

\* const opts: RequiredDeepEqualOptions = { ... }
ResolveOptions(options) ==
  [nanEqual        |-> Nullish(options.nanEqual, TRUE),
   checkPrototypes |-> Nullish(options.checkPrototypes, FALSE),
   strictZero      |-> Nullish(options.strictZero, FALSE),
   maxDepth        |-> Nullish(options.maxDepth, DefaultMaxDepth)]

\* mutant of the ledger's creation: the ledger of the previous call reused
ReusedWeakMap(last) == last

\* new WeakMap(): an empty ledger, whatever ledger the previous call left
NewWeakMap(last) == NewSeen

\* return deepEqualCore(a, b, opts, new WeakMap(), 0);
\* `last` is the ledger the previous top-level call left behind.
isDeepEqual(x, y, options, last) ==
  deepEqualCore(Heap, x, y, ResolveOptions(options), NewWeakMap(last), 0)

\* deepEqualCheck: return deepEqualCore(a, b, opts, new WeakMap(), 0);
deepEqualCheck(x, y, options) ==
  deepEqualCoreInlined(Heap, x, y, ResolveOptions(options), NewSeen, 0)

(***************************************************************************)
(* The state machine: top-level calls on pairs of values of the heap.      *)
(* `last` is the ledger the previous call of the behaviour left behind,    *)
(* `chk` what deepEqualCheck returned on the same arguments.               *)
(***************************************************************************)
VARIABLES a, b, options, ret, pc, last, chk
vars == <<a, b, options, ret, pc, last, chk>>

\* const opts = { ... } of the call in progress
opts == ResolveOptions(options)

\* The pairs a call is made on: any two values of the fixed heap, two
\* chains, two cycle members, or two members of a cycle through a collection.
InputPairs ==
  (BaseValues \X BaseValues) \cup (ChainValues \X ChainValues)
    \cup (RingValues \X RingValues) \cup (CycValues \X CycValues)

\* A caller is about to invoke isDeepEqual(a, b, options).  A cycle through
\* a collection is only compared under an explicit maxDepth of the model's
\* range: its recursion ends at the depth guard alone.
Init ==
  \E p \in InputPairs, o \in DeepEqualOptions :
    /\ p[1] \in CycValues => o.maxDepth.has
    /\ a = p[1]
    /\ b = p[2]
    /\ options = o
    /\ ret = Return(FALSE, NewSeen, 0)
    /\ pc = "called"
    /\ last = NewSeen
    /\ chk = Return(FALSE, NewSeen, 0)

\* The call runs: the options are resolved and the comparison returns.
IsDeepEqual ==
  /\ pc = "called"
  /\ ret' = isDeepEqual(a, b, options, last)
  /\ pc' = "done"
  /\ UNCHANGED <<a, b, options, last, chk>>

Next == IsDeepEqual

Spec == Init /\ [][Next]_vars

\* Sequences of calls.  The values and options they are made on: objects
\* that share children, so that the ledgers of different calls record the
\* same left-hand object with different counterparts.
SeqValues == {Ref(3), Ref(4), Ref(6), Ref(16), Ref(17), Ref(18), Ref(19), Ref(20)}
SeqOptions ==
  {o \in DeepEqualOptions :
     /\ ~o.nanEqual.has /\ ~o.strictZero.has
     /\ o.checkPrototypes \in {Absent(FALSE), Given(TRUE)}
     /\ o.maxDepth \in {Absent(0), Given(0), Given(MaxDepthOpt)}}

SeqInit ==
  \E p \in SeqValues \X SeqValues, o \in SeqOptions :
    /\ a = p[1]
    /\ b = p[2]
    /\ options = o
    /\ ret = Return(FALSE, NewSeen, 0)
    /\ pc = "called"
    /\ last = NewSeen
    /\ chk = Return(FALSE, NewSeen, 0)

\* After a call has returned the caller makes another one; the ledger of
\* the returned call is what it left behind.
CallAgain(x, y, o) ==
  /\ a' = x
  /\ b' = y
  /\ options' = o
  /\ ret' = Return(FALSE, NewSeen, 0)
  /\ pc' = "called"
  /\ last' = ret.seen
  /\ chk' = chk

SeqNext ==
  \/ IsDeepEqual
  \/ /\ pc = "done"
     /\ \E p \in SeqValues \X SeqValues, o \in SeqOptions : CallAgain(p[1], p[2], o)

SeqSpec == SeqInit /\ [][SeqNext]_vars

\* Both entry points called on the same arguments: after isDeepEqual has
\* returned, the caller invokes deepEqualCheck(a, b, options).
DeepEqualCheck ==
  /\ pc = "done"
  /\ chk' = deepEqualCheck(a, b, options)
  /\ pc' = "checked"
  /\ UNCHANGED <<a, b, options, ret, last>>

CheckNext == IsDeepEqual \/ DeepEqualCheck

CheckSpec == Init /\ [][CheckNext]_vars


(***************************************************************************)
(* Notions the properties are stated with.                                 *)
(***************************************************************************)
Done == pc = "done"

\* the ids an object refers to directly
Children(id) ==
  LET o == Obj(id)
  IN  {v.n : v \in {w \in Range(o.items) \cup Range(o.props) \cup Range(o.mvals) : IsObj(w)}}

RECURSIVE Closure(_)
Closure(S) ==
  LET N == S \cup UNION {Children(i) : i \in S}
  IN  IF N = S THEN S ELSE Closure(N)

\* the ids reachable from a value, itself included
Reach(v) == IF IsObj(v) THEN Closure({v.n}) ELSE {}

\* no object reachable from v reaches itself
Acyclic(v) == \A i \in Reach(v) : i \notin Closure(Children(i))

\* v is built from arrays, generic objects, Sets and Maps only
Plain(v) == \A i \in Reach(v) : Obj(i).cls \in {"Array", "Object", "Set", "Map"} /\ Obj(i).proto

\* v is built from arrays and generic objects only
PlainRecords(v) == \A i \in Reach(v) : Obj(i).cls \in {"Array", "Object"} /\ Obj(i).proto

\* the depth at which the deepest child of an acyclic value is compared
RECURSIVE Height(_)
Height(v) ==
  IF ~IsObj(v) THEN 0
  ELSE LET o == Obj(v.n)
           kids == Range(o.items) \cup Range(o.props) \cup Range(o.mvals)
       IN  IF kids = {} THEN 0
           ELSE 1 + (CHOOSE h \in {Height(k) : k \in kids} :
                       \A k \in kids : Height(k) <= h)

\* equality of two primitives under the conf
PrimEq(x, y, conf) ==
  \/ StrictEq(x, y) /\ (conf.strictZero => ZeroSignsAgree(x, y))
  \/ IsNaN(x) /\ IsNaN(y) /\ conf.nanEqual

\* Structural equality of acyclic plain values: arrays index-wise, generic
\* objects key-wise, Sets and Maps by a one-to-one correspondence of
\* structurally equal elements or entries.  Structural equality is an
\* equivalence, so such a correspondence exists exactly when every element
\* has as many equals on the left as on the right.
RECURSIVE StructEq(_, _, _)
StructEq(x, y, conf) ==
  IF ~IsObj(x) \/ ~IsObj(y) THEN PrimEq(x, y, conf)
  ELSE IF x = y THEN TRUE
  ELSE LET A == Obj(x.n)
           B == Obj(y.n)
           EntryEq(X, i, Y, j) ==
             /\ StructEq(X.items[i], Y.items[j], conf)
             /\ X.cls = "Map" => StructEq(X.mvals[i], Y.mvals[j], conf)
           Count(i, Y) == Cardinality({j \in DOMAIN Y.items : EntryEq(A, i, Y, j)})
       IN  /\ A.cls = B.cls
           /\ CASE A.cls = "Array" ->
                     /\ Len(A.items) = Len(B.items)
                     /\ \A i \in DOMAIN A.items : StructEq(A.items[i], B.items[i], conf)
                [] A.cls = "Object" ->
                     /\ Range(A.keys) = Range(B.keys)
                     /\ \A k \in Range(A.keys) :
                          StructEq(GetProp(A, k), GetProp(B, k), conf)
                [] A.cls \in {"Set", "Map"} ->
                     /\ Len(A.items) = Len(B.items)
                     /\ \A i \in DOMAIN A.items : Count(i, A) = Count(i, B)
                [] OTHER -> FALSE

\* no Set or Map reachable from v holds two structurally equal elements
NoDuplicates(v, conf) ==
  \A i \in Reach(v) :
    Obj(i).cls \in {"Set", "Map"} =>
      \A j, k \in DOMAIN Obj(i).items :
        j # k => ~StructEq(Obj(i).items[j], Obj(i).items[k], conf)

\* the outcome of a call: its boolean, or that it threw
Outcome(c) == IF c.ex THEN "throws" ELSE IF c.r THEN "true" ELSE "false"

(***************************************************************************)
(* Properties.                                                             *)
(***************************************************************************)

\* C1: every top-level call, on any pair of values and any resolved
\* conf, completes with a boolean and raises no exception.
C1_NeverThrows == Done => ~ret.ex

\* C2: soundness of the ledger.  For acyclic values built from arrays,
\* generic objects, Sets and Maps, all within maxDepth, a call that answers
\* true was made on structurally equal values.  Stated where checkPrototypes
\* is set, so that the constructor check has already told the categories
\* apart and only the ledger can make an unequal pair equal.
C2_LedgerSound ==
  (/\ Done /\ ~ret.ex /\ ret.r /\ opts.checkPrototypes
   /\ Plain(a) /\ Plain(b) /\ Acyclic(a) /\ Acyclic(b)
   /\ Height(a) <= opts.maxDepth /\ Height(b) <= opts.maxDepth)
    => StructEq(a, b, opts)

\* C3: completeness.  Under the default conf, two acyclic values built
\* from arrays and generic objects that are structurally equal compare
\* equal, however references are shared inside either of them.
C3_Complete ==
  (/\ Done /\ opts = ResolveOptions([nanEqual |-> Absent(FALSE),
                                     checkPrototypes |-> Absent(FALSE),
                                     strictZero |-> Absent(FALSE),
                                     maxDepth |-> Absent(0)])
   /\ PlainRecords(a) /\ PlainRecords(b) /\ Acyclic(a) /\ Acyclic(b)
   /\ StructEq(a, b, opts))
    => (~ret.ex /\ ret.r)

\* C4: symmetry.  For acyclic values built from arrays, generic objects,
\* Sets and Maps without structurally duplicate elements, and any conf,
\* the call on (a, b) and the call on (b, a), each with its own empty
\* ledger, have the same outcome.
C4_Symmetric ==
  (/\ Done /\ Plain(a) /\ Plain(b) /\ Acyclic(a) /\ Acyclic(b)
   /\ NoDuplicates(a, opts) /\ NoDuplicates(b, opts))
    => Outcome(ret) = Outcome(deepEqualCore(Heap, b, a, opts, NewSeen, 0))

\* C5: depth boundary.  Two reference-disjoint chains of d nested single-key
\* objects over the same leaf compare equal exactly when maxDepth >= d.
C5_DepthBoundary ==
  (/\ Done /\ a \in ChainValues /\ b \in ChainValues
   /\ ChainSide(a.n) # ChainSide(b.n) /\ ChainLevel(a.n) = ChainLevel(b.n))
    => (~ret.ex /\ (ret.r <=> opts.maxDepth >= ChainLevel(a.n)))

\* the longest chain compared under maxDepth equal to its length: the leaf
\* pair is compared at that depth and the chains are found equal
C5_Witness ==
  /\ Done /\ a = Ref(ChainId(0, ChainMax)) /\ b = Ref(ChainId(1, ChainMax))
  /\ opts.maxDepth = ChainMax /\ ret.maxd = ChainMax /\ ret.r

\* C6: cycles of generic objects or of arrays.  Two members of cycles of
\* the same kind and length compare equal exactly when the primitive
\* fields agree at every corresponding position around the cycle, for every
\* maxDepth at least the number of left-hand objects, and no call is made
\* deeper than that number: the ledger, not the depth guard, ends the walk.
C6_Cycles ==
  (/\ Done /\ a \in RingValues /\ b \in RingValues
   /\ RingCopy(a.n) \div 3 = RingCopy(b.n) \div 3
   /\ RingSize(a.n) = RingSize(b.n)
   /\ opts.maxDepth >= RingSize(a.n))
    => LET n == RingSize(a.n)
       IN  /\ ~ret.ex
           /\ ret.maxd <= n
           /\ ret.r <=> \A k \in 0..(n - 1) :
                          RingFoo(RingCopy(a.n), n, (RingPos(a.n) + k) % n)
                            = RingFoo(RingCopy(b.n), n, (RingPos(b.n) + k) % n)

\* two distinct cycles of the greatest length with equal fields, compared
\* under maxDepth equal to the length: equal, the back reference met at
\* depth equal to the length
C6_Witness ==
  /\ Done /\ a = Ref(RingId(0, RingMax, 0)) /\ b = Ref(RingId(1, RingMax, 0))
  /\ opts.maxDepth = RingMax /\ ret.maxd = RingMax /\ ret.r

\* C7: termination.  Every top-level call completes, and no call of its
\* tree is entered at a depth greater than maxDepth + 1, also on cycles
\* that pass through Set elements or Map keys and values.
C7_DepthBounded == Done => ret.maxd <= opts.maxDepth + 1

\* two distinct Sets that contain themselves, compared under the greatest
\* explicit maxDepth: the walk is ended by the depth guard at maxDepth + 1
C7_Witness ==
  /\ Done /\ a = Ref(503) /\ b = Ref(505)
  /\ opts.maxDepth = MaxDepthOpt /\ ret.maxd = MaxDepthOpt + 1 /\ ~ret.ex

\* C8: Map order independence.  Two acyclic Maps of arrays, generic objects,
\* Sets and Maps, within maxDepth, whose entries correspond one-to-one with
\* structurally equal keys and values compare equal whatever the insertion
\* orders are.
C8_MapOrder ==
  (/\ Done /\ IsObj(a) /\ IsObj(b)
   /\ Obj(a.n).cls = "Map" /\ Obj(b.n).cls = "Map"
   /\ Plain(a) /\ Plain(b) /\ Acyclic(a) /\ Acyclic(b)
   /\ Height(a) <= opts.maxDepth /\ Height(b) <= opts.maxDepth
   /\ StructEq(a, b, opts))
    => (~ret.ex /\ ret.r)

\* the Sets of the heap, and Sets holding the same elements in any order
SetIds == {i \in FixedIds \cup CycIds : Obj(i).cls = "Set"}
PermOf(i, j) ==
  /\ Len(Obj(i).items) = Len(Obj(j).items)
  /\ Range(Obj(i).items) = Range(Obj(j).items)

\* C9: Set order independence.  The outcome of comparing two Sets is the
\* same for every insertion order of either Set, and Sets of different
\* sizes are unequal.
C9_SetOrder ==
  (/\ Done /\ IsObj(a) /\ IsObj(b) /\ a.n \in SetIds /\ b.n \in SetIds)
    => /\ Len(Obj(a.n).items) # Len(Obj(b.n).items) => ~ret.r
       /\ \A s, t \in SetIds :
            (PermOf(s, a.n) /\ PermOf(t, b.n)) =>
              Outcome(deepEqualCore(Heap, Ref(s), Ref(t), opts, NewSeen, 0)) = Outcome(ret)

\* C10: category separation.  Two objects of different runtime categories
\* are never deep-equal, in either argument order and for both values of
\* checkPrototypes.
C10_Separated ==
  (Done /\ IsObj(a) /\ IsObj(b) /\ Obj(a.n).cls # Obj(b.n).cls) => ~ret.r

\* v is a generic object: none of the built-in categories, with a prototype
GenericObj(v) == IsObj(v) /\ Obj(v.n).cls = "Object" /\ Obj(v.n).proto

\* no object is reachable from two fields of v, nor v from a field of its own
FieldsDisjoint(v) ==
  LET o == Obj(v.n)
  IN  /\ \A i \in DOMAIN o.props : v.n \notin Reach(o.props[i])
      /\ \A i, j \in DOMAIN o.props :
           i # j => Reach(o.props[i]) \cap Reach(o.props[j]) = {}

\* the comparator finds x and y deep-equal when called on them alone, one
\* level below the top
DeepEqualAlone(x, y) ==
  LET c == deepEqualCore(Heap, x, y, opts, NewSeen, 1)
  IN  ~c.ex /\ c.r

Single(v) ==
  /\ IsObj(v)
  /\ LET o == Obj(v.n)
     IN  /\ o.proto
         /\ \/ o.cls \in {"Array", "Set", "TypedArray"} /\ Len(o.items) = 1 /\ o.keys = <<>>
            \/ o.cls = "Object" /\ Len(o.props) = 1

\* the only child of such a value
Child(v) ==
  LET o == Obj(v.n)
  IN  IF o.cls = "Object" THEN o.props[1] ELSE o.items[1]

\* two such values of the same category, constructor and key
SameShape(x, y) ==
  /\ Single(x) /\ Single(y) /\ x # y
  /\ Obj(x.n).cls = Obj(y.n).cls
  /\ Obj(x.n).ctor = Obj(y.n).ctor
  /\ Obj(x.n).keys = Obj(y.n).keys

Boxed(v) == IsObj(v) /\ Obj(v.n).cls = "Boxed"

\* the answer the signed-zero rule gives for two zeros
ZeroAnswer(x, y) == ~opts.strictZero \/ ZeroSignsAgree(x, y)

\* C13: signed zero.  Two zeros compare equal exactly when strictZero is
\* unset or their signs agree: at the top level, as the paired elements of
\* two arrays or typed arrays, as the paired fields of two generic objects
\* and as the primitives of two wrapped Numbers.
C13_SignedZero ==
  /\ (Done /\ IsZero(a) /\ IsZero(b))
        => (~ret.ex /\ (ret.r <=> ZeroAnswer(a, b)))
  /\ (Done /\ SameShape(a, b) /\ Obj(a.n).cls # "Set" /\ opts.maxDepth >= 1
        /\ IsZero(Child(a)) /\ IsZero(Child(b)))
        => (~ret.ex /\ (ret.r <=> ZeroAnswer(Child(a), Child(b))))
  /\ (Done /\ Boxed(a) /\ Boxed(b) /\ a # b
        /\ IsZero(Obj(a.n).prim) /\ IsZero(Obj(b.n).prim))
        => (~ret.ex /\ (ret.r <=> ZeroAnswer(Obj(a.n).prim, Obj(b.n).prim)))

Decides(sn, d, c) ==
  IF d > opts.maxDepth THEN c = Return(FALSE, sn, d)
  ELSE IF StrictEq(a, b)
    THEN c = Return(~opts.strictZero \/ ZeroSignsAgree(a, b), sn, d)
  ELSE IF IsNaN(a) /\ IsNaN(b) THEN c = Return(opts.nanEqual, sn, d)
  ELSE IF ~IsObj(a) \/ ~IsObj(b) THEN c = Return(FALSE, sn, d)
  ELSE IF Constructor(Obj(a.n)) # Constructor(Obj(b.n)) /\ opts.checkPrototypes
    THEN c = Return(FALSE, sn, d)
  ELSE IF a.n \in DOMAIN sn THEN c = Return(sn[a.n] = b.n, sn, d)
  ELSE a.n \in DOMAIN c.seen /\ c.seen[a.n] = b.n

\* ledgers that already hold the left-hand object
SeededLedgers ==
  IF IsObj(a)
    THEN {[x \in {a.n} |-> t] : t \in {1, 2} \cup (IF IsObj(b) THEN {b.n} ELSE {})}
    ELSE {}

\* C15: rule order.  The call made, the same call entered one level beyond
\* maxDepth, and the same call entered with the left-hand object already in
\* the ledger are each decided by the first rule that applies: depth guard,
\* identity, NaN, non-object, constructor, ledger, dispatch.
C15_RuleOrder ==
  Done =>
    /\ Decides(NewSeen, 0, ret)
    /\ Decides(NewSeen, opts.maxDepth + 1,
               deepEqualCore(Heap, a, b, opts, NewSeen, opts.maxDepth + 1))
    /\ \A sn \in SeededLedgers :
         /\ Decides(sn, 0, deepEqualCore(Heap, a, b, opts, sn, 0))
         /\ Decides(sn, opts.maxDepth + 1,
                    deepEqualCore(Heap, a, b, opts, sn, opts.maxDepth + 1))

\* two distinct objects {x: 1} under maxDepth 0: the fields, the same
\* primitive, are compared at depth 1 and the depth guard answers false
C15_Witness ==
  /\ Done /\ a = Ref(3) /\ b = Ref(4) /\ opts.maxDepth = 0
  /\ ~ret.r /\ ~ret.ex /\ ret.maxd = 1

\* ledger t holds every entry of ledger s, unchanged
Extends(t, s) == \A x \in DOMAIN s : x \in DOMAIN t /\ t[x] = s[x]

\* ledgers holding one object reachable from a, recorded with an object
\* reachable from b or with another object as counterpart
EarlierLedgers ==
  {[x \in {l} |-> r] : l \in Reach(a), r \in Reach(b) \cup {1}}

\* C16: ledger invariant.  Whatever entry a ledger holds when a call is
\* entered, the ledger holds it unchanged when the call returns or throws;
\* the call made with an empty ledger leaves the left-hand object recorded
\* with the right-hand object, whatever was visited afterwards.
C16_LedgerGrows ==
  Done =>
    /\ \A x \in DOMAIN ret.seen : x = a.n => ret.seen[x] = b.n
    /\ \A sn \in EarlierLedgers :
         Extends(deepEqualCore(Heap, a, b, opts, sn, 0).seen, sn)

\* [o, o] against [p, q]: o is recorded with q, met again against p and
\* answered false, and is still recorded with q when the call returns
C16_Witness ==
  /\ Done /\ a = Ref(18) /\ b = Ref(19) /\ ~ret.r /\ ~ret.ex
  /\ DOMAIN ret.seen = {18, 3} /\ ret.seen[3] = 5

\* The pairings a Set comparison makes, as pairs <<position in a, position
\* in b>>: the small branch walks a forwards, the large branch walks the
\* array copy of a backwards; each asks the inner loop for the first
\* unclaimed position of b and stops at the first element left unmatched.
RECURSIVE smallClaims(_, _, _, _, _, _, _)
smallClaims(vsA, vsB, conf, d, i, processedB, cl) ==
  IF i > Len(vsA) THEN cl
  ELSE LET f == smallSetInner(Heap, vsA[i], vsB, conf, d, 1, processedB, d)
       IN  IF f.ex \/ f.found = 0 THEN cl
           ELSE smallClaims(vsA, vsB, conf, d, i + 1, processedB \cup {f.found},
                            cl \cup {<<i, f.found>>})

RECURSIVE largeClaims(_, _, _, _, _, _, _)
largeClaims(arrA, arrB, conf, d, i, processedB, cl) ==
  IF i = 0 THEN cl
  ELSE LET f == largeSetInner(Heap, arrA[i], arrB, conf, d, Len(arrB), processedB, d)
       IN  IF f.ex \/ f.found = 0 THEN cl
           ELSE largeClaims(arrA, arrB, conf, d, i - 1, processedB \cup {f.found},
                            cl \cup {<<i, f.found>>})

SetClaims(x, y, conf, d) ==
  LET vsA == Obj(x.n).items
      vsB == Obj(y.n).items
  IN  IF Len(vsA) <= SmallSetMax THEN smallClaims(vsA, vsB, conf, d, 1, {}, {})
      ELSE largeClaims(vsA, vsB, conf, d, Len(vsA), {}, {})

BothSets ==
  /\ Done /\ IsObj(a) /\ IsObj(b)
  /\ Obj(a.n).cls = "Set" /\ Obj(b.n).cls = "Set"

\* C17: Set matching is one-to-one.  In a comparison of two Sets no element
\* of b is claimed by two elements of a; every claimed pairing is one that
\* the comparator accepts with an empty ledger one level deeper, whatever
\* ledger the Set comparison was entered with, and that ledger comes back
\* as it went in; the comparison answers true exactly when every element of
\* a has claimed an element of b, and then, the sizes being equal, every
\* element of b is claimed.
C17_SetOneToOne ==
  BothSets =>
    LET cl == SetClaims(a, b, opts, 0)
        c0 == compareSetOptimized(Heap, a, b, opts, NewSeen, 0)
        A  == Obj(a.n).items
        B  == Obj(b.n).items
    IN  /\ \A p, q \in cl : p[2] = q[2] => p = q
        /\ \A p \in cl : deepEqualCore(Heap, A[p[1]], B[p[2]], opts, NewSeen, 1).r
        /\ ~c0.ex
        /\ c0.r <=> {p[1] : p \in cl} = DOMAIN A
        /\ (c0.r /\ Len(A) = Len(B)) => {p[2] : p \in cl} = DOMAIN B
        /\ \A sn \in EarlierLedgers :
             compareSetOptimized(Heap, a, b, opts, sn, 0) = Return(c0.r, sn, c0.maxd)

\* {[p, q], [o, o]} against {[o, o], [p, q]} with o, p, q alike: the first
\* element of a claims the first element of b, the second finds the other
\* element of b unequal and the answer is false
C17_Witness ==
  /\ BothSets /\ a = Ref(49) /\ b = Ref(48) /\ ~ret.r /\ ~ret.ex
  /\ SetClaims(a, b, opts, 0) = {<<1, 1>>}
  /\ deepEqualCore(Heap, Ref(18), Ref(18), opts, NewSeen, 1).r

\* the orders the index pairs of two arrays of length n can be evaluated in
Orders(n) == {s \in [1..n -> 0..(n - 1)] : Range(s) = 0..(n - 1)}

\* the array loop with its index pairs evaluated in the order ord, from
\* position k of ord on
RECURSIVE arrayLoopIn(_, _, _, _, _, _, _)
arrayLoopIn(A, B, conf, seen, depth, ord, k) ==
  IF k > Len(ord) THEN Return(TRUE, seen, depth)
  ELSE LET c == deepEqualCore(Heap, GetIndex(A, ord[k]), GetIndex(B, ord[k]),
                              conf, seen, depth + 1)
       IN  IF c.ex THEN Throw(c.seen, depth)
           ELSE IF ~c.r THEN Return(FALSE, c.seen, depth)
           ELSE arrayLoopIn(A, B, conf, c.seen, depth, ord, k + 1)

BothArrays ==
  /\ Done /\ IsObj(a) /\ IsObj(b)
  /\ Obj(a.n).cls = "Array" /\ Obj(b.n).cls = "Array"
  /\ Len(Obj(a.n).items) = Len(Obj(b.n).items)

\* C18: array evaluation-order independence.  For two arrays of the same
\* length and fixed options the array comparison has the same outcome in
\* whatever order the index pairs are evaluated: descending as the code
\* does, ascending, or any other.
C18_ArrayOrder ==
  BothArrays =>
    LET A  == Obj(a.n)
        B  == Obj(b.n)
        sn == SeenSet(NewSeen, a, b)
    IN  \A ord \in Orders(Len(A.items)) :
          Outcome(arrayLoopIn(A, B, opts, sn, 0, ord, 1))
            = Outcome(arrayLoop(Heap, A, B, opts, sn, 0, Len(A.items), 0))

\* The entries of b that the entries of a are matched with in a Map
\* comparison, as pairs <<position in a, position in b>>, up to the first
\* entry of a left unmatched.
RECURSIVE mapClaims(_, _, _, _, _, _, _)
mapClaims(idA, idB, conf, seen, d, i, cl) ==
  IF i > Len(Obj(idA).items) THEN cl
  ELSE LET f == mapInner(Heap, Obj(idA).items[i], Obj(idA).mvals[i], idB, conf,
                         seen, d, 1, d)
       IN  IF f.ex \/ ~f.found THEN cl
           ELSE mapClaims(idA, idB, conf, f.seen, d, i + 1, cl \cup {<<i, f.at>>})

BothMaps ==
  /\ Done /\ IsObj(a) /\ IsObj(b)
  /\ Obj(a.n).cls = "Map" /\ Obj(b.n).cls = "Map"
  /\ Len(Obj(a.n).items) = Len(Obj(b.n).items)

\* C19: Map matching is one-to-one.  When the comparison of two distinct
\* Maps of equal size answers true, no entry of b is the counterpart of two entries
\* of a, and so every entry of b is the counterpart of an entry of a.
C19_MapOneToOne ==
  (BothMaps /\ a # b /\ ret.r) =>
    LET cl == mapClaims(a.n, b.n, opts, SeenSet(NewSeen, a, b), 0, 1, {})
    IN  /\ \A p, q \in cl : p[2] = q[2] => p = q
        /\ {p[2] : p \in cl} = DOMAIN Obj(b.n).items

\* the two branches of compareSetOptimized, each run on the same two Sets
SmallBranch(x, y, conf, d) ==
  smallSetOuter(Heap, Obj(x.n).items, y.n, conf, NewSeen, d, 1, {}, d)
LargeBranch(x, y, conf, d) ==
  LET arrA == ArrayFrom(Heap, x.n)
      arrB == ArrayFrom(Heap, y.n)
  IN  IF Len(arrA) # Len(arrB) THEN Return(FALSE, NewSeen, d)
      ELSE largeSetOuter(Heap, arrA, arrB, conf, NewSeen, d, Len(arrA), {}, d)

\* C20: the two branches of the Set comparison agree.  For the same two
\* Sets of equal size and the same options, the small-set branch and the
\* large-set branch give the same outcome.
C20_BranchesAgree ==
  (BothSets /\ Len(Obj(a.n).items) = Len(Obj(b.n).items)) =>
    Outcome(SmallBranch(a, b, opts, 0)) = Outcome(LargeBranch(a, b, opts, 0))

\* C21: the two entry points agree.  For every pair of values and every
\* options record, deepEqualCheck and isDeepEqual called on the same
\* arguments have the same outcome.
C21_EntryPointsAgree == pc = "checked" => Outcome(chk) = Outcome(ret)

====
